---- MODULE Spec2Model ----
(***************************************************************************)
(* Map Art Converter (mapart.js): palette building, nearest-colour         *)
(* matching and mosaic assembly, with the asynchronous texture existence   *)
(* checks and tile loads that interleave with user events.                 *)
(*                                                                         *)
(* Execution model (JavaScript event loop): a macrotask (a user event, a   *)
(* network or image completion) runs only when no continuation of an       *)
(* already resolved promise is pending; pending continuations run in any   *)
(* order.  Each action is one run-to-completion segment of a handler,      *)
(* from its start or from an await to the next await or to its return.     *)
(*                                                                         *)
(* Gradient tool (docs/gradient/app.js): pickTransitions,                  *)
(* preferencePenalty and the part of update() after its await, under       *)
(* GradSpec, whose initial states draw the inputs.                         *)
(***************************************************************************)
EXTENDS Integers, Sequences, FiniteSets, TLC

\* ---------------------------------------------------------------- bounds
MaxChanges == 1      \* filter-change events (palette select / creative box)
MaxGenerates == 1    \* clicks on the Generate button
MaxN == 3            \* largest count handed to pickTransitions on its own
MaxEvents == 2       \* input events of the gradient page that call update()

\* ------------------------------------------------------------- catalogue
\* blocks.json, a small instance.  Ids are numbers standing for the block
\* names, their numeric order standing for String.localeCompare.  lab = <<>>
\* is a missing avg_lab.
BLOCKS_JSON ==
  [i \in 1..6 |->
     CASE i = 1 -> [lab |-> <<60, 0, 0>>, full_block |-> TRUE,
                    transparent |-> FALSE, noisy |-> FALSE, creative_only |-> FALSE]
       [] i = 2 -> [lab |-> <<95, 0, 0>>, full_block |-> TRUE,
                    transparent |-> FALSE, noisy |-> TRUE, creative_only |-> FALSE]
       [] i = 3 -> [lab |-> <<40, 0, 0>>, full_block |-> TRUE,
                    transparent |-> TRUE, noisy |-> FALSE, creative_only |-> FALSE]
       [] i = 4 -> [lab |-> <<5, 0, 0>>, full_block |-> TRUE,
                    transparent |-> FALSE, noisy |-> FALSE, creative_only |-> TRUE]
       [] i = 5 -> [lab |-> <<20, 0, 0>>, full_block |-> FALSE,
                    transparent |-> FALSE, noisy |-> FALSE, creative_only |-> FALSE]
       [] OTHER -> [lab |-> <<>>, full_block |-> TRUE,
                    transparent |-> FALSE, noisy |-> FALSE, creative_only |-> FALSE]]

Ids == DOMAIN BLOCKS_JSON

\* Object.keys(BLOCKS): the insertion order of the file, which is not sorted.
BlockIds == <<3, 1, 6, 4, 5, 2>>

Modes == {"full_solid", "all_solid", "everything"}

\* Values of the size select.
Sizes == {1, 2}

\* RGBA pixels the crop delivers: opaque white, white with alpha 0, black
\* with alpha 1.
PxWhite == [r |-> 255, g |-> 255, b |-> 255, a |-> 255]
PxClear == [r |-> 255, g |-> 255, b |-> 255, a |-> 0]
PxFaint == [r |-> 0, g |-> 0, b |-> 0, a |-> 1]

\* getImageData(...).data of a size x size canvas, one record per pixel:
\* the images the crop can deliver at each size.
ImageData(size) ==
  IF size = 1 THEN {<<PxWhite>>, <<PxClear>>}
              ELSE {<<PxWhite, PxClear, PxFaint, PxWhite>>,
                    <<PxFaint, PxFaint, PxClear, PxClear>>}

\* Answers a HEAD request for textures_top/<id>.png can give (res.ok, or
\* FALSE for a 404 or a network error).
HeadAnswers(id) == IF id = 1 THEN BOOLEAN ELSE {TRUE}

\* Lab inputs for findNearestBlock taken on their own.
LabInputs == {<<l, a, 0>> : l \in {0, 20, 50, 80, 100}, a \in {0, 10}}

null == <<>>

\* ------------------------------------------------------------- variables
VARIABLES
  BLOCKS,          \* FALSE = null, TRUE = BLOCKS_JSON loaded
  PALETTE,         \* sequence of [id, lab]
  TOP_TEX_OK,      \* id -> "none" | "ok" | "missing"
  TEX_CACHE,       \* ids with a loaded tile image
  LAST_COUNTS,     \* null or <<counts>>, counts a function keyed by id
  LAST_SIZE,
  LAST_ASSIGN,     \* null or the assignment array (0 = empty cell)
  IS_GENERATING,
  elPalette,       \* value of the palette select
  elCreative,      \* checked state of the creative box
  elImgSrc,        \* elImg.src is set
  status,          \* elStatus.textContent
  outCanvas,       \* [size, cells]: cells[p] = id drawn in cell p, 0 = blank
  initPc,          \* init(): "fetch" | "build" | "done" | "failed"
  builds,          \* slot -> buildPalette run
  buildCount,      \* buildPalette runs started past the BLOCKS check
  latestArr,       \* result of the latest started run, once it has finished
  gen,             \* the generate pass past the guard and its locals
  ignoredCalls,    \* generate invocations that returned at the guard
  changes,         \* filter-change events so far
  clicks,          \* Generate clicks so far
  outCtx,          \* the page has the output canvas and its 2d context
  \* the gradient tool (docs/gradient/app.js)
  CANDIDATE_IDS,   \* sequence of ids
  elA,             \* elA.dataset.id
  elB,             \* elB.dataset.id
  elN,             \* elN.value, a sequence of characters
  elAvoidDupes,    \* checked state
  elMode,          \* elMode.value
  elPreferBuilding,\* checked state
  elStrip,         \* ids of the rendered strip
  nPassed,         \* update(): the n of its last pickTransitions call
  picked,          \* the last pickTransitions call: arguments and outcome
  penalty,         \* the last preferencePenalty call: arguments and result
  elFullBlocksOnly,\* checked state
  updates,         \* per update() invocation: how far its rebuildCandidates is
  events           \* input events of the gradient page so far

vars == <<BLOCKS, PALETTE, TOP_TEX_OK, TEX_CACHE, LAST_COUNTS, LAST_SIZE,
          LAST_ASSIGN, IS_GENERATING, elPalette, elCreative, elImgSrc, status,
          outCanvas, initPc, builds, buildCount, latestArr, gen, ignoredCalls,
          changes, clicks, outCtx, CANDIDATE_IDS, elA, elB, elN, elAvoidDupes,
          elMode, elPreferBuilding, elStrip, nPassed, picked, penalty,
          elFullBlocksOnly, updates, events>>

updVars == <<elFullBlocksOnly, updates, events>>

gradVars == <<CANDIDATE_IDS, elA, elB, elN, elAvoidDupes, elMode,
              elPreferBuilding, elStrip, nPassed, picked, penalty, updVars>>

genVars == <<LAST_COUNTS, LAST_SIZE, LAST_ASSIGN, IS_GENERATING, outCanvas, gen,
             ignoredCalls>>

Slots == 1..(MaxChanges + 1)

NoRun == [pc |-> "none", caller |-> "none", seq |-> 0, mode |-> "none",
          includeCreative |-> FALSE, i |-> 0, arr |-> <<>>,
          checks |-> [id \in Ids |-> "unchecked"]]

EmptyMap == [k \in {} |-> 0]

\* cache = the pass's memo of picks by colour key; repicked = the pass
\* stored, under a key the memo of the pass before it held, another entry.
NoPass == [pc |-> "idle", size |-> 0, data |-> <<>>, palette |-> <<>>,
           assign |-> <<>>, pending |-> [id \in Ids |-> 0],
           cache |-> EmptyMap, repicked |-> FALSE]

\* A JavaScript number as far as the count needs it: NaN or an integer.
NaN == [nan |-> TRUE, v |-> 0]

Num(k) == [nan |-> FALSE, v |-> k]

NoCall == [idA |-> "", idB |-> "", n |-> NaN, avoidDupes |-> FALSE,
           state |-> "none", picks |-> <<>>]

\* A catalogue entry without tag_flags and tags.
NoFlags == [building_block |-> FALSE, plantlike |-> FALSE, redstone |-> FALSE,
            ore |-> FALSE, transparent |-> FALSE, noisy |-> FALSE,
            creative_only |-> FALSE]

NoPenalty == [state |-> "none", block |-> NoFlags, mode |-> "anything",
              preferBuilding |-> FALSE, p |-> 0]

\* No update() invocation in this slot.
NoUpdate == [pc |-> "none", filtered |-> <<>>, i |-> 0, keep |-> <<>>]

UpdSlots == 1..MaxEvents

\* ------------------------------------------------------ colour conversion
\* rgbToLab255 on the colours of Pixels, rounded to integers:
\* (0,0,0) -> (0,0,0); (255,255,255) -> (100.000004, -0.00002, 0.00001).
rgbToLab255(r, g, b) ==
  IF r = 255 /\ g = 255 /\ b = 255 THEN <<100, 0, 0>> ELSE <<0, 0, 0>>

\* distLab squared: Math.sqrt is strictly increasing on these integers, so
\* every comparison d < bestD has the same outcome on the squares.
distLab(a, b) ==
  (a[1] - b[1]) * (a[1] - b[1]) + (a[2] - b[2]) * (a[2] - b[2])
    + (a[3] - b[3]) * (a[3] - b[3])

\* ------------------------------------------------------- palette building
\* Admits without the `tags.noisy` test of full_solid.
AdmitsNoisy(b, mode, includeCreative) ==
  /\ b.lab # <<>>
  /\ ~(~includeCreative /\ b.creative_only)
  /\ IF mode \in {"full_solid", "all_solid"}
       THEN b.full_block /\ ~b.transparent
       ELSE TRUE

\* The filter of the loop body before the existence check.
Admits(b, mode, includeCreative) ==
  /\ b.lab # <<>>
  /\ ~(~includeCreative /\ b.creative_only)
  /\ IF mode = "full_solid"
       THEN b.full_block /\ ~b.transparent /\ ~b.noisy
       ELSE IF mode = "all_solid"
         THEN b.full_block /\ ~b.transparent
         ELSE TRUE

RECURSIVE InsertById(_, _)
InsertById(e, s) ==
  IF s = <<>> THEN <<e>>
  ELSE IF e.id < Head(s).id THEN <<e>> \o s
  ELSE <<Head(s)>> \o InsertById(e, Tail(s))

\* arr left in the order of Object.keys.
Unsorted(arr) == arr

RECURSIVE SortById(_)
SortById(arr) ==
  IF arr = <<>> THEN <<>> ELSE InsertById(Head(arr), SortById(Tail(arr)))

\* The for loop from index run.i until the next await or the end of the
\* function: "cached" = the await of a memoised topTextureExists,
\* "fetch" = the await of a HEAD request, "returned" = PALETTE assigned.
RECURSIVE BuildLoop(_, _)
BuildLoop(run, top) ==
  IF run.i > Len(BlockIds)
    THEN [run EXCEPT !.pc = "returned", !.arr = SortById(run.arr)]
    ELSE LET id == BlockIds[run.i] IN
      IF ~Admits(BLOCKS_JSON[id], run.mode, run.includeCreative)
        THEN BuildLoop([run EXCEPT !.i = @ + 1], top)
        ELSE IF top[id] # "none"
          THEN [run EXCEPT !.pc = "cached"]
          ELSE [run EXCEPT !.pc = "fetch"]

\* The continuation of `await topTextureExists(id)` with its result.
BuildAfterCheck(run, ok, top) ==
  LET id == BlockIds[run.i]
      pushed == IF ok THEN Append(run.arr, [id |-> id, lab |-> BLOCKS_JSON[id].lab])
                      ELSE run.arr
  IN BuildLoop([run EXCEPT !.arr = pushed, !.i = @ + 1,
                           !.checks[id] = IF ok THEN "ok" ELSE "missing"], top)

\* PALETTE patched at every push instead of replaced at the end.
PalettePatched(run, pal) == run.arr

\* PALETTE after a segment of a run: arr is a local until `PALETTE = arr`.
PaletteAfter(run, pal) == IF run.pc = "returned" THEN run.arr ELSE pal


\* ---------------------------------------------------------------- matching
none == [id |-> 0, lab |-> <<>>]

\* The scan with `d <= bestD`: the last of several nearest entries wins.
RECURSIVE NearestLast(_, _, _, _, _)
NearestLast(lab, pal, k, best, bestD) ==
  IF k > Len(pal) THEN best
  ELSE LET d == distLab(lab, pal[k].lab) IN
    IF best = none \/ d <= bestD
      THEN NearestLast(lab, pal, k + 1, pal[k], d)
      ELSE NearestLast(lab, pal, k + 1, best, bestD)

\* The linear scan from palette index k on; best = none is the initial
\* best = null with bestD = Infinity.
RECURSIVE NearestFrom(_, _, _, _, _)
NearestFrom(lab, pal, k, best, bestD) ==
  IF k > Len(pal) THEN best
  ELSE LET d == distLab(lab, pal[k].lab) IN
    IF best = none \/ d < bestD
      THEN NearestFrom(lab, pal, k + 1, pal[k], d)
      ELSE NearestFrom(lab, pal, k + 1, best, bestD)

findNearestBlock(lab, pal) == NearestFrom(lab, pal, 1, none, 0)

\* An alpha threshold instead of `a === 0`.
IsFaintPixel(px) == px.a < 128

\* The test `a === 0` that makes a cell empty.
IsEmptyPixel(px) == px.a = 0

\* key = (r<<16) | (g<<8) | b
RgbKey(px) == px.r * 65536 + px.g * 256 + px.b

\* counts[pick.id] = 1: the count is set, not incremented.
CountSet(counts, id) ==
  IF id \in DOMAIN counts THEN counts ELSE counts @@ (id :> 1)

\* A count that also lists the id before the picked one, with zero
\* occurrences.
CountWithNeighbour(counts, id) ==
  LET c == IF id \in DOMAIN counts THEN [counts EXCEPT ![id] = @ + 1]
                                   ELSE counts @@ (id :> 1)
  IN IF id > 1 /\ (id - 1) \notin DOMAIN c THEN c @@ ((id - 1) :> 0) ELSE c

\* counts[pick.id] = (counts[pick.id] || 0) + 1
CountPick(counts, id) ==
  IF id \in DOMAIN counts THEN [counts EXCEPT ![id] = @ + 1]
                          ELSE counts @@ (id :> 1)

\* The pixel loop from pixel p on.  m carries the locals assign, counts and
\* cache; threw = a TypeError on pick.id when nothing was picked.
RECURSIVE MatchFrom(_, _, _, _)
MatchFrom(data, pal, p, m) ==
  IF p > Len(data) \/ m.threw THEN m
  ELSE LET px == data[p] IN
    IF IsEmptyPixel(px)
      THEN MatchFrom(data, pal, p + 1, [m EXCEPT !.assign = Append(@, 0)])
      ELSE LET key == RgbKey(px)
               hit == key \in DOMAIN m.cache
               pick == IF hit THEN m.cache[key]
                       ELSE findNearestBlock(rgbToLab255(px.r, px.g, px.b), pal)
               cache2 == IF hit THEN m.cache ELSE m.cache @@ (key :> pick)
           IN IF pick = none
                THEN [m EXCEPT !.cache = cache2, !.threw = TRUE]
                ELSE MatchFrom(data, pal, p + 1,
                       [m EXCEPT !.cache = cache2,
                                 !.assign = Append(@, pick.id),
                                 !.counts = CountPick(@, pick.id)])

\* A memo that outlives the pass that filled it.
KeptCache(old) == old

\* `const cache = new Map()` inside generate: every pass starts with an empty
\* memo, whatever the pass before it (old) had stored.
NewCache(old) == EmptyMap

\* A pixel loop that lets a palette replacement in after its first pixel:
\* the later pixels are matched against a palette without pal's first
\* entry.
MatchPassInterleaved(data, pal) ==
  LET m0 == [assign |-> <<>>, counts |-> EmptyMap, cache |-> NewCache(gen.cache),
             threw |-> FALSE]
      m1 == IF data = <<>> THEN m0 ELSE MatchFrom(<<data[1]>>, pal, 1, m0)
  IN MatchFrom(data, IF Len(pal) > 1 THEN Tail(pal) ELSE pal, 2, m1)

MatchPass(data, pal) ==
  MatchFrom(data, pal, 1,
            [assign |-> <<>>, counts |-> EmptyMap, cache |-> NewCache(gen.cache),
             threw |-> FALSE])

\* ---------------------------------------------------------------- rendering
\* used = Array.from(new Set(assign)).filter(Boolean)
UsedIds(assign) == {assign[p] : p \in DOMAIN assign} \ {0}

\* loadTextureForBlock over used: the number of image loads started per id.
StartLoads(used, cache) ==
  [id \in Ids |-> IF id \in used /\ id \notin cache THEN 1 ELSE 0]

\* A drawing loop that a missing tile image ends: the cells after the first
\* cell without an image stay blank.
DrawUntilMissing(assign, cache) ==
  LET missing == {p \in DOMAIN assign : assign[p] # 0 /\ assign[p] \notin cache}
  IN [p \in DOMAIN assign |->
        IF assign[p] # 0 /\ assign[p] \in cache /\ \A q \in missing : p < q
          THEN assign[p] ELSE 0]

\* The drawing loop without `if(!tex) continue`.
DrawAssigned(assign, cache) == [p \in DOMAIN assign |-> assign[p]]

\* The drawing loop: a cell is drawn when it has an id and TEX_CACHE has
\* its image.
DrawCells(assign, cache) ==
  [p \in DOMAIN assign |->
     IF assign[p] # 0 /\ assign[p] \in cache THEN assign[p] ELSE 0]

BlankCells(size) == [p \in 1..(size * size) |-> 0]

\* ---------------------------------------------------------------- generate
\* generate without its guard.
NeverGenerating(flag) == FALSE

\* The guard `if(IS_GENERATING) return;`.
AlreadyGenerating(flag) == flag

\* generate() past the guard: the try block up to its first await, or the
\* return or throw that ends it, with the finally clause.  size and data
\* are what the size select and the crop deliver; cropOk = FALSE is
\* getCroppedCanvas/drawImage throwing (a cropper that is not ready).
GenerateBody(size, data, cropOk) ==
  IF ~BLOCKS
    THEN /\ status' = "Blocks not loaded yet."
         /\ IS_GENERATING' = FALSE
         /\ UNCHANGED <<LAST_COUNTS, LAST_SIZE, LAST_ASSIGN, outCanvas, gen>>
  ELSE IF Len(PALETTE) = 0
    THEN /\ status' = "Palette is empty (adjust filters or textures_top is missing files)."
         /\ IS_GENERATING' = FALSE
         /\ UNCHANGED <<LAST_COUNTS, LAST_SIZE, LAST_ASSIGN, outCanvas, gen>>
  ELSE IF ~elImgSrc
    THEN /\ status' = "Upload an image first."
         /\ IS_GENERATING' = FALSE
         /\ UNCHANGED <<LAST_COUNTS, LAST_SIZE, LAST_ASSIGN, outCanvas, gen>>
  ELSE IF ~outCtx
    THEN /\ status' = "Missing output canvas (check HTML IDs)."
         /\ IS_GENERATING' = FALSE
         /\ UNCHANGED <<LAST_COUNTS, LAST_SIZE, LAST_ASSIGN, outCanvas, gen>>
  ELSE IF ~cropOk
    THEN /\ LAST_SIZE' = size
         /\ status' = "Error: crop"
         /\ IS_GENERATING' = FALSE
         /\ UNCHANGED <<LAST_COUNTS, LAST_ASSIGN, outCanvas, gen>>
  ELSE LET m == MatchPass(data, PALETTE) IN
    IF m.threw
      THEN /\ LAST_SIZE' = size
           /\ status' = "Error: match"
           /\ IS_GENERATING' = FALSE
           /\ UNCHANGED <<LAST_COUNTS, LAST_ASSIGN, outCanvas, gen>>
      ELSE LET pending == StartLoads(UsedIds(m.assign), TEX_CACHE) IN
           /\ LAST_SIZE' = size
           /\ LAST_COUNTS' = <<m.counts>>
           /\ LAST_ASSIGN' = m.assign
           /\ status' = "Rendering texture mosaic..."
           /\ outCanvas' = [size |-> size, cells |-> BlankCells(size)]
           /\ IS_GENERATING' = TRUE
           /\ gen' = [pc |-> IF \A id \in Ids : pending[id] = 0
                               THEN "ready" ELSE "loading",
                      size |-> size, data |-> data, palette |-> PALETTE,
                      assign |-> m.assign, pending |-> pending,
                      cache |-> m.cache,
                      repicked |-> \E k \in DOMAIN m.cache \cap DOMAIN gen.cache :
                                     m.cache[k] # gen.cache[k]]

\* generate without the check of PALETTE.length: the matching loop runs on
\* the empty palette and throws at the first opaque pixel.
GenerateUnchecked(size, data, cropOk) ==
  IF AlreadyGenerating(IS_GENERATING)
    THEN /\ ignoredCalls' = ignoredCalls + 1
         /\ UNCHANGED <<LAST_COUNTS, LAST_SIZE, LAST_ASSIGN, IS_GENERATING,
                        outCanvas, gen, status>>
    ELSE /\ ignoredCalls' = ignoredCalls
         /\ IF BLOCKS /\ Len(PALETTE) = 0 /\ elImgSrc /\ outCtx
              THEN /\ LAST_SIZE' = size
                   /\ status' = "Error: match"
                   /\ IS_GENERATING' = FALSE
                   /\ UNCHANGED <<LAST_COUNTS, LAST_ASSIGN, outCanvas, gen>>
              ELSE GenerateBody(size, data, cropOk)

\* generate() from its call to its first await or its return.
Generate(size, data, cropOk) ==
  IF AlreadyGenerating(IS_GENERATING)
    THEN /\ ignoredCalls' = ignoredCalls + 1
         /\ UNCHANGED <<LAST_COUNTS, LAST_SIZE, LAST_ASSIGN, IS_GENERATING,
                        outCanvas, gen, status>>
    ELSE /\ ignoredCalls' = ignoredCalls
         /\ GenerateBody(size, data, cropOk)


\* ------------------------------------------------------------- event loop
\* A continuation of a resolved promise is pending.
MicrotaskPending ==
  \/ \E s \in Slots : builds[s].pc \in {"cached", "returned", "skipped"}
  \/ gen.pc = "ready"

FreeSlot ==
  CHOOSE s \in Slots : /\ builds[s].pc = "none"
                       /\ \A t \in Slots : t < s => builds[t].pc # "none"

LoadedStatus(n) ==
  "Loaded blocks: " \o ToString(Len(BlockIds)) \o ". Palette: " \o ToString(n) \o "."

\* The effects of a run's segment that ends in state run.
FinishSegment(s, run) ==
  /\ builds' = [builds EXCEPT ![s] = run]
  /\ PALETTE' = PaletteAfter(run, PALETTE)
  /\ status' = IF run.pc = "returned" THEN LoadedStatus(Len(run.arr)) ELSE status
  /\ latestArr' = IF run.pc = "returned" /\ run.seq = buildCount
                    THEN run.arr ELSE latestArr

\* buildPalette() from its call to its first await or its return.
StartBuild(caller, loaded, mode, includeCreative) ==
  IF ~loaded
    THEN /\ builds' = [builds EXCEPT ![FreeSlot] =
                         [NoRun EXCEPT !.pc = "skipped", !.caller = caller]]
         /\ UNCHANGED <<PALETTE, status, latestArr, buildCount>>
    ELSE LET run0 == [NoRun EXCEPT !.pc = "run", !.caller = caller,
                                   !.seq = buildCount + 1, !.mode = mode,
                                   !.includeCreative = includeCreative, !.i = 1]
             run == BuildLoop(run0, TOP_TEX_OK)
         IN /\ buildCount' = buildCount + 1
            /\ builds' = [builds EXCEPT ![FreeSlot] = run]
            /\ PALETTE' = PaletteAfter(run, PALETTE)
            /\ status' = IF run.pc = "returned" THEN LoadedStatus(Len(run.arr))
                                                ELSE "Building palette..."
            /\ latestArr' = IF run.pc = "returned" THEN run.arr ELSE latestArr

\* ------------------------------------------------------------------ actions
\* The mosaic page as its script leaves it before init() runs.
PageLoad ==
  /\ BLOCKS = FALSE
  /\ PALETTE = <<>>
  /\ TOP_TEX_OK = [id \in Ids |-> "none"]
  /\ TEX_CACHE = {}
  /\ LAST_COUNTS = null
  /\ LAST_SIZE = 128
  /\ LAST_ASSIGN = null
  /\ IS_GENERATING = FALSE
  /\ elPalette = "full_solid"
  /\ elCreative = FALSE
  /\ elImgSrc = FALSE
  /\ status = "Loading blocks..."
  /\ outCanvas = [size |-> 0, cells |-> <<>>]
  /\ initPc = "fetch"
  /\ builds = [s \in Slots |-> NoRun]
  /\ buildCount = 0
  /\ latestArr = <<>>
  /\ gen = NoPass
  /\ ignoredCalls = 0
  /\ changes = 0
  /\ clicks = 0

\* The gradient page is not open.
GradientClosed ==
  /\ CANDIDATE_IDS = <<>>
  /\ elA = ""
  /\ elB = ""
  /\ elN = <<>>
  /\ elAvoidDupes = FALSE
  /\ elMode = "anything"
  /\ elPreferBuilding = FALSE
  /\ elStrip = <<>>
  /\ nPassed = <<>>
  /\ picked = NoCall
  /\ penalty = NoPenalty
  /\ elFullBlocksOnly = FALSE
  /\ updates = [s \in UpdSlots |-> NoUpdate]
  /\ events = 0

Init ==
  /\ PageLoad
  /\ outCtx \in BOOLEAN
  /\ GradientClosed

\* init(): blocks.json arrived and parsed; buildPalette() is called.
InitFetchOk ==
  /\ initPc = "fetch" /\ ~MicrotaskPending
  /\ BLOCKS' = TRUE
  /\ initPc' = "build"
  /\ StartBuild("init", TRUE, elPalette, elCreative)
  /\ UNCHANGED <<outCtx, gradVars>>
  /\ UNCHANGED <<TOP_TEX_OK, TEX_CACHE, genVars, elPalette, elCreative, elImgSrc,
                 changes, clicks>>

\* An init() that reports the failure but goes on with the catalogue.
InitFetchFailLoads ==
  /\ initPc = "fetch" /\ ~MicrotaskPending
  /\ initPc' = "failed"
  /\ BLOCKS' = TRUE
  /\ status' = "Failed to load ../data/blocks.json. Run the server from /site."
  /\ UNCHANGED <<outCtx, gradVars>>
  /\ UNCHANGED <<PALETTE, TOP_TEX_OK, TEX_CACHE, genVars, elPalette,
                 elCreative, elImgSrc, builds, buildCount, latestArr, changes, clicks>>

\* init(): the fetch failed, res.ok was false or the JSON did not parse.
InitFetchFail ==
  /\ initPc = "fetch" /\ ~MicrotaskPending
  /\ initPc' = "failed"
  /\ status' = "Failed to load ../data/blocks.json. Run the server from /site."
  /\ UNCHANGED <<outCtx, gradVars>>
  /\ UNCHANGED <<BLOCKS, PALETTE, TOP_TEX_OK, TEX_CACHE, genVars, elPalette,
                 elCreative, elImgSrc, builds, buildCount, latestArr, changes, clicks>>

\* elPalette change handler up to its await.
ChangePalette(m) ==
  /\ ~MicrotaskPending /\ changes < MaxChanges /\ m # elPalette
  /\ elPalette' = m
  /\ changes' = changes + 1
  /\ StartBuild("change", BLOCKS, m, elCreative)
  /\ UNCHANGED <<outCtx, gradVars>>
  /\ UNCHANGED <<BLOCKS, TOP_TEX_OK, TEX_CACHE, genVars, elCreative, elImgSrc,
                 initPc, clicks>>

\* elCreative change handler up to its await.
ChangeCreative ==
  /\ ~MicrotaskPending /\ changes < MaxChanges
  /\ elCreative' = ~elCreative
  /\ changes' = changes + 1
  /\ StartBuild("change", BLOCKS, elPalette, ~elCreative)
  /\ UNCHANGED <<outCtx, gradVars>>
  /\ UNCHANGED <<BLOCKS, TOP_TEX_OK, TEX_CACHE, genVars, elPalette, elImgSrc,
                 initPc, clicks>>

\* elFile change handler and elImg.onload.
FileLoaded ==
  /\ ~MicrotaskPending /\ ~elImgSrc
  /\ elImgSrc' = TRUE
  /\ status' = "Adjust crop, then click Generate."
  /\ UNCHANGED <<outCtx, gradVars>>
  /\ UNCHANGED <<BLOCKS, PALETTE, TOP_TEX_OK, TEX_CACHE, genVars, elPalette,
                 elCreative, initPc, builds, buildCount, latestArr, changes, clicks>>

\* elGen click.
ClickGenerate ==
  /\ ~MicrotaskPending /\ clicks < MaxGenerates
  /\ clicks' = clicks + 1
  /\ \E size \in Sizes : \E data \in ImageData(size) : \E cropOk \in BOOLEAN :
       Generate(size, data, cropOk)
  /\ UNCHANGED <<outCtx, gradVars>>
  /\ UNCHANGED <<BLOCKS, PALETTE, TOP_TEX_OK, TEX_CACHE, elPalette, elCreative,
                 elImgSrc, initPc, builds, buildCount, latestArr, changes>>

\* The HEAD request of run s completes: topTextureExists memoises the
\* answer and the run continues.
FetchResolve(s, ok) ==
  /\ ~MicrotaskPending /\ builds[s].pc = "fetch"
  /\ ok \in HeadAnswers(BlockIds[builds[s].i])
  /\ TOP_TEX_OK' = [TOP_TEX_OK EXCEPT ![BlockIds[builds[s].i]] =
                      IF ok THEN "ok" ELSE "missing"]
  /\ FinishSegment(s, BuildAfterCheck(builds[s], ok, TOP_TEX_OK'))
  /\ UNCHANGED <<outCtx, gradVars>>
  /\ UNCHANGED <<BLOCKS, TEX_CACHE, genVars, elPalette, elCreative, elImgSrc,
                 initPc, buildCount, changes, clicks>>

\* Run s continues after awaiting a memoised answer.
BuildResume(s) ==
  /\ builds[s].pc = "cached"
  /\ FinishSegment(s, BuildAfterCheck(builds[s],
                        TOP_TEX_OK[BlockIds[builds[s].i]] = "ok", TOP_TEX_OK))
  /\ UNCHANGED <<outCtx, gradVars>>
  /\ UNCHANGED <<BLOCKS, TOP_TEX_OK, TEX_CACHE, genVars, elPalette, elCreative,
                 elImgSrc, initPc, buildCount, changes, clicks>>

\* The caller of run s continues after `await buildPalette()`.
CallerResume(s) ==
  /\ builds[s].pc \in {"returned", "skipped"}
  /\ builds' = [builds EXCEPT ![s] = NoRun]
  /\ IF builds[s].caller = "init"
       THEN /\ initPc' = "done"
            /\ status' = "Loaded blocks. Upload an image to start."
            /\ UNCHANGED genVars
       ELSE /\ initPc' = initPc
            /\ IF elImgSrc /\ LAST_ASSIGN # null
                 THEN \E size \in Sizes : \E data \in ImageData(size) :
                        \E cropOk \in BOOLEAN : Generate(size, data, cropOk)
                 ELSE UNCHANGED <<genVars, status>>
  /\ UNCHANGED <<outCtx, gradVars>>
  /\ UNCHANGED <<BLOCKS, PALETTE, TOP_TEX_OK, TEX_CACHE, elPalette, elCreative,
                 elImgSrc, buildCount, latestArr, changes, clicks>>

\* img.onload (ok) or img.onerror of a tile image of the pass.
TileLoaded(id, ok) ==
  /\ ~MicrotaskPending /\ gen.pc = "loading" /\ gen.pending[id] > 0
  /\ TEX_CACHE' = IF ok THEN TEX_CACHE \cup {id} ELSE TEX_CACHE
  /\ LET pending == [gen.pending EXCEPT ![id] = @ - 1] IN
       gen' = [gen EXCEPT !.pending = pending,
                          !.pc = IF \A j \in Ids : pending[j] = 0
                                   THEN "ready" ELSE "loading"]
  /\ UNCHANGED <<outCtx, gradVars>>
  /\ UNCHANGED <<BLOCKS, PALETTE, TOP_TEX_OK, LAST_COUNTS, LAST_SIZE, LAST_ASSIGN,
                 IS_GENERATING, elPalette, elCreative, elImgSrc, status, outCanvas,
                 ignoredCalls, initPc, builds, buildCount, latestArr, changes, clicks>>

\* A generate that renders and reports Done without its finally clause.
GenResumeHolds ==
  /\ gen.pc = "ready"
  /\ outCanvas' = [outCanvas EXCEPT !.cells = DrawCells(gen.assign, TEX_CACHE)]
  /\ status' = "Done."
  /\ gen' = [gen EXCEPT !.pc = "done"]
  /\ UNCHANGED <<outCtx, gradVars>>
  /\ UNCHANGED <<ignoredCalls, BLOCKS, PALETTE, TOP_TEX_OK, TEX_CACHE, LAST_COUNTS, LAST_SIZE,
                 LAST_ASSIGN, IS_GENERATING, elPalette, elCreative, elImgSrc, initPc,
                 builds, buildCount, latestArr, changes, clicks>>

\* renderTextureMosaic and generate after `await Promise.all(...)`.
GenResume ==
  /\ gen.pc = "ready"
  /\ outCanvas' = [outCanvas EXCEPT !.cells = DrawCells(gen.assign, TEX_CACHE)]
  /\ status' = "Done."
  /\ IS_GENERATING' = FALSE
  /\ gen' = [gen EXCEPT !.pc = "done"]
  /\ UNCHANGED <<outCtx, gradVars>>
  /\ UNCHANGED <<ignoredCalls, BLOCKS, PALETTE, TOP_TEX_OK, TEX_CACHE, LAST_COUNTS, LAST_SIZE,
                 LAST_ASSIGN, elPalette, elCreative, elImgSrc, initPc, builds,
                 buildCount, latestArr, changes, clicks>>

Next ==
  \/ InitFetchOk
  \/ InitFetchFail
  \/ \E m \in Modes : ChangePalette(m)
  \/ ChangeCreative
  \/ FileLoaded
  \/ ClickGenerate
  \/ \E s \in Slots : \E ok \in BOOLEAN : FetchResolve(s, ok)
  \/ \E s \in Slots : BuildResume(s)
  \/ \E s \in Slots : CallerResume(s)
  \/ \E id \in Ids : \E ok \in BOOLEAN : TileLoaded(id, ok)
  \/ GenResume

Spec == Init /\ [][Next]_vars

\* A step the page takes without the user: a continuation of a resolved
\* promise, or the onload or onerror of a tile image whose load was started.
Progress ==
  \/ \E s \in Slots : BuildResume(s)
  \/ \E s \in Slots : CallerResume(s)
  \/ \E id \in Ids : \E ok \in BOOLEAN : TileLoaded(id, ok)
  \/ GenResume

\* The event loop does not stop while such a step is possible.
FairSpec == Spec /\ WF_vars(Progress)

\* =========================================================== gradient tool
\* docs/gradient/app.js.  Its ids are the block names.
\* blocks.json as the gradient tool reads it: avg_lab (<<>> = missing) and
\* the truthiness of tag_flags.* and tags.*.  The colours lie on the L axis.
GRAD_BLOCKS ==
  [id \in {"andesite", "bedrock", "cobweb", "diorite", "fern"} |->
     CASE id = "andesite" -> [NoFlags EXCEPT !.building_block = TRUE] @@
                             [avg_lab |-> <<50, 0, 0>>, full_block |-> TRUE]
       [] id = "bedrock"  -> [NoFlags EXCEPT !.building_block = TRUE,
                                             !.creative_only = TRUE] @@
                             [avg_lab |-> <<30, 0, 0>>, full_block |-> TRUE]
       [] id = "cobweb"   -> [NoFlags EXCEPT !.transparent = TRUE] @@
                             [avg_lab |-> <<90, 0, 0>>, full_block |-> FALSE]
       [] id = "diorite"  -> [NoFlags EXCEPT !.building_block = TRUE] @@
                             [avg_lab |-> <<80, 0, 0>>, full_block |-> TRUE]
       [] OTHER           -> [NoFlags EXCEPT !.plantlike = TRUE] @@
                             [avg_lab |-> <<>>, full_block |-> FALSE]]

\* Object.keys(BLOCKS).sort()
ALL_IDS == <<"andesite", "bedrock", "cobweb", "diorite", "fern">>

\* The values of the mode select.
GradModes == {"anything", "building", "creative"}

\* BLOCKS[id]?.avg_lab, <<>> standing for undefined.
AvgLab(id) == IF id \in DOMAIN GRAD_BLOCKS THEN GRAD_BLOCKS[id].avg_lab ELSE <<>>

RECURSIVE SqrtBetween(_, _, _)
SqrtBetween(x, lo, hi) ==
  IF lo = hi THEN lo
  ELSE LET mid == (lo + hi + 1) \div 2 IN
         IF mid * mid <= x THEN SqrtBetween(x, mid, hi)
                           ELSE SqrtBetween(x, lo, mid - 1)

\* Math.sqrt, exact on squares (the distances of colours on one axis).
Sqrt(x) == SqrtBetween(x, 0, IF x > 46340 THEN 46340 ELSE x)

\* distLab of app.js: the Euclidean distance.
gradientDistLab(a, b) ==
  LET dL == a[1] - b[1]
      da == a[2] - b[2]
      db == a[3] - b[3]
  IN Sqrt(dL * dL + da * da + db * db)

\* lerpLab(A, B, i/(n+1)), in units of 1/(n+1): the target times n+1.
lerpLab(A, B, i, n) ==
  [c \in 1..3 |-> (n + 1 - i) * A[c] + i * B[c]]

\* A penalty whose terms exclude one another: the largest applicable term.
PenaltyLargest(block, mode, preferBuilding) ==
  IF mode = "anything" THEN 0
  ELSE IF mode # "creative" /\ block.creative_only THEN 8
  ELSE IF preferBuilding /\ ~block.building_block THEN 6
  ELSE IF block.plantlike \/ block.redstone THEN 5
  ELSE IF block.ore \/ block.transparent \/ block.noisy THEN 4
  ELSE 0

preferencePenalty(block, mode, preferBuilding) ==
  IF mode = "anything" THEN 0
  ELSE (IF preferBuilding /\ ~block.building_block THEN 6 ELSE 0)
     + (IF block.plantlike THEN 5 ELSE 0)
     + (IF block.redstone THEN 5 ELSE 0)
     + (IF block.ore THEN 4 ELSE 0)
     + (IF block.transparent THEN 4 ELSE 0)
     + (IF block.noisy THEN 4 ELSE 0)
     + (IF mode # "creative" /\ block.creative_only THEN 8 ELSE 0)

\* The score without the preference penalty.
ScoreDistanceOnly(id, T, den) ==
  gradientDistLab([c \in 1..3 |-> den * GRAD_BLOCKS[id].avg_lab[c]], T)

\* distLab(lab, T) + preferencePenalty(...) of candidate id for the target
\* T * den, in units of 1/den.
Score(id, T, den) ==
  gradientDistLab([c \in 1..3 |-> den * GRAD_BLOCKS[id].avg_lab[c]], T)
    + den * preferencePenalty(GRAD_BLOCKS[id], elMode, elPreferBuilding)

\* The scan before any candidate was looked at: bestId = null,
\* bestScore = Infinity.
NoBest == [id |-> "", inf |-> TRUE, score |-> 0, threw |-> FALSE]

\* The scan of CANDIDATE_IDS for the target T * den from candidate k on.
\* threw = the TypeError of distLab reading a[0] of a missing avg_lab.
RECURSIVE ScanFrom(_, _, _, _, _, _)
ScanFrom(T, den, k, used, avoidDupes, best) ==
  IF k > Len(CANDIDATE_IDS) \/ best.threw THEN best
  ELSE LET id == CANDIDATE_IDS[k] IN
    IF avoidDupes /\ id \in used
      THEN ScanFrom(T, den, k + 1, used, avoidDupes, best)
    ELSE IF AvgLab(id) = <<>>
      THEN [best EXCEPT !.threw = TRUE]
    ELSE LET score == Score(id, T, den) IN
      IF best.inf \/ score < best.score
        THEN ScanFrom(T, den, k + 1, used, avoidDupes,
                      [best EXCEPT !.id = id, !.inf = FALSE, !.score = score])
        ELSE ScanFrom(T, den, k + 1, used, avoidDupes, best)

\* A used set that forgets the picks.
UsedSame(used, id) == used

\* used.add(bestId)
UsedAfter(used, id) == used \cup {id}

\* The loop over the targets from target i on; st = the locals picks and
\* used.
RECURSIVE PickFrom(_, _, _, _, _, _)
PickFrom(A, B, n, i, avoidDupes, st) ==
  IF i > n \/ st.threw THEN st
  ELSE LET best == ScanFrom(lerpLab(A, B, i, n), n + 1, 1, st.used, avoidDupes,
                            NoBest)
       IN IF best.threw THEN [st EXCEPT !.threw = TRUE]
          ELSE IF best.id # ""
            THEN PickFrom(A, B, n, i + 1, avoidDupes,
                          [st EXCEPT !.picks = Append(@, best.id),
                                     !.used = UsedAfter(@, best.id)])
            ELSE PickFrom(A, B, n, i + 1, avoidDupes, st)

\* pickTransitions(idA, idB, n, avoidDupes); n is a number, a NaN or
\* non-positive n giving no target.
pickTransitions(idA, idB, n, avoidDupes) ==
  LET A == AvgLab(idA)
      B == AvgLab(idB)
  IN IF A = <<>> \/ B = <<>> THEN [state |-> "returned", picks |-> <<>>]
     ELSE LET st == PickFrom(A, B, IF n.nan THEN 0 ELSE n.v, 1, avoidDupes,
                             [picks |-> <<>>, used |-> {idA, idB},
                              threw |-> FALSE])
          IN IF st.threw THEN [state |-> "threw", picks |-> <<>>]
                         ELSE [state |-> "returned", picks |-> st.picks]

\* ------------------------------------------------------- the count input
Digits == <<"0", "1", "2", "3", "4", "5", "6", "7", "8", "9">>

DigitValue(c) == (CHOOSE d \in DOMAIN Digits : Digits[d] = c) - 1

IsDigit(c) == \E d \in DOMAIN Digits : Digits[d] = c

RECURSIVE SkipWhite(_)
SkipWhite(s) == IF s # <<>> /\ Head(s) = " " THEN SkipWhite(Tail(s)) ELSE s

\* The leading digits of s: any = there is one, v = their value.
RECURSIVE LeadingDigits(_, _)
LeadingDigits(s, acc) ==
  IF s = <<>> \/ ~IsDigit(Head(s)) THEN acc
  ELSE LeadingDigits(Tail(s), [any |-> TRUE, v |-> acc.v * 10 + DigitValue(Head(s))])

\* parseInt(s, 10): leading white space, a sign, then digits up to the first
\* other character; NaN without a digit.
parseInt(s) ==
  LET t == SkipWhite(s)
      signed == t # <<>> /\ Head(t) \in {"+", "-"}
      d == LeadingDigits(IF signed THEN Tail(t) ELSE t, [any |-> FALSE, v |-> 0])
  IN IF ~d.any THEN NaN
     ELSE IF signed /\ Head(t) = "-" THEN Num(0 - d.v) ELSE Num(d.v)

\* Math.min(a, b)
MathMin(a, b) ==
  IF a.nan \/ b.nan THEN NaN ELSE IF a.v < b.v THEN a ELSE b

RECURSIVE DigitsOf(_)
DigitsOf(k) ==
  IF k < 10 THEN <<Digits[k + 1]>>
  ELSE Append(DigitsOf(k \div 10), Digits[(k % 10) + 1])

\* String(n), what `elN.value = n` stores.
NumberToString(n) ==
  IF n.nan THEN <<"N", "a", "N">>
  ELSE IF n.v < 0 THEN <<"-">> \o DigitsOf(0 - n.v) ELSE DigitsOf(n.v)

\* ------------------------------------------------------- gradient actions
\* The ids of S, a set of positions of ALL_IDS, in the order of ALL_IDS:
\* what rebuildCandidates keeps when exactly these pass the filter and have
\* a texture.
RECURSIVE KeepFrom(_, _)
KeepFrom(S, k) ==
  IF k > Len(ALL_IDS) THEN <<>>
  ELSE (IF k \in S THEN <<ALL_IDS[k]>> ELSE <<>>) \o KeepFrom(S, k + 1)

CandidateLists == {KeepFrom(S, 1) : S \in SUBSET DOMAIN ALL_IDS}

\* Selections of the two pickers: a block, a block without colour, or an id
\* that is not in the catalogue.
SelectionsA == {"andesite", "fern", "granite"}
SelectionsB == {"diorite", "bedrock"}

\* Contents of the count input.
CountInputs == {<<"3">>, <<"1", "4">>, <<"2", "0">>, <<"0">>, <<"-", "2">>,
                <<>>, <<" ", "2", ".", "5">>}

FlagSets ==
  [building_block : BOOLEAN, plantlike : BOOLEAN, redstone : BOOLEAN,
   ore : BOOLEAN, transparent : BOOLEAN, noisy : BOOLEAN,
   creative_only : BOOLEAN]

\* The gradient page after init() loaded the catalogue, with the inputs as
\* the user set them and CANDIDATE_IDS as a rebuildCandidates left it; or
\* the arguments of one preferencePenalty call.
GradInit ==
  /\ PageLoad
  /\ outCtx = TRUE
  /\ elStrip = <<>>
  /\ nPassed = <<>>
  /\ picked = NoCall
  /\ elFullBlocksOnly = FALSE
  /\ updates = [s \in UpdSlots |-> NoUpdate]
  /\ events = 0
  /\ \/ /\ CANDIDATE_IDS \in CandidateLists
        /\ elA \in SelectionsA
        /\ elB \in SelectionsB
        /\ elN \in CountInputs
        /\ elAvoidDupes \in BOOLEAN
        /\ elMode \in GradModes
        /\ elPreferBuilding \in BOOLEAN
        /\ penalty = NoPenalty
     \/ /\ CANDIDATE_IDS = <<>>
        /\ elA = ""
        /\ elB = ""
        /\ elN = <<>>
        /\ elAvoidDupes = FALSE
        /\ elMode = "anything"
        /\ elPreferBuilding = FALSE
        /\ penalty \in [state : {"in"}, block : FlagSets, mode : GradModes,
                        preferBuilding : BOOLEAN, p : {0}]

\* pickTransitions applied to the selections with the count n.
Pick(n) ==
  /\ picked.state = "none" /\ nPassed = <<>> /\ penalty.state = "none"
  /\ picked' = [idA |-> elA, idB |-> elB, n |-> Num(n),
                avoidDupes |-> elAvoidDupes] @@
               pickTransitions(elA, elB, Num(n), elAvoidDupes)
  /\ UNCHANGED <<CANDIDATE_IDS, elA, elB, elN, elAvoidDupes, elMode,
                 elPreferBuilding, elStrip, nPassed, penalty, updVars>>
  /\ UNCHANGED <<BLOCKS, PALETTE, TOP_TEX_OK, TEX_CACHE, genVars, elPalette,
                 elCreative, elImgSrc, status, initPc, builds, buildCount,
                 latestArr, changes, clicks, outCtx>>

\* update() after `await rebuildCandidates()`.  A throw of pickTransitions
\* rejects update's promise and leaves the strip as it was.
UpdateTail ==
  LET n == MathMin(parseInt(elN), Num(14)) IN
    /\ elN' = NumberToString(n)
    /\ IF elA \notin DOMAIN GRAD_BLOCKS \/ elB \notin DOMAIN GRAD_BLOCKS
         THEN /\ elStrip' = <<>>
              /\ nPassed' = nPassed
         ELSE LET mids == pickTransitions(elA, elB, n, elAvoidDupes) IN
              /\ nPassed' = <<n>>
              /\ elStrip' = IF mids.state = "threw" THEN elStrip
                            ELSE <<elA>> \o mids.picks \o <<elB>>

\* update() with its rebuildCandidates already done.
Update ==
  /\ picked.state = "none" /\ penalty.state = "none"
  /\ UpdateTail
  /\ UNCHANGED <<CANDIDATE_IDS, elA, elB, elAvoidDupes, elMode,
                 elPreferBuilding, picked, penalty, updVars>>
  /\ UNCHANGED <<BLOCKS, PALETTE, TOP_TEX_OK, TEX_CACHE, genVars, elPalette,
                 elCreative, elImgSrc, status, initPc, builds, buildCount,
                 latestArr, changes, clicks, outCtx>>

\* preferencePenalty applied to the arguments drawn.
ApplyPenalty ==
  /\ penalty.state = "in"
  /\ penalty' = [penalty EXCEPT
                   !.state = "out",
                   !.p = preferencePenalty(penalty.block, penalty.mode,
                                           penalty.preferBuilding)]
  /\ UNCHANGED <<CANDIDATE_IDS, elA, elB, elN, elAvoidDupes, elMode,
                 elPreferBuilding, elStrip, nPassed, picked, updVars>>
  /\ UNCHANGED <<BLOCKS, PALETTE, TOP_TEX_OK, TEX_CACHE, genVars, elPalette,
                 elCreative, elImgSrc, status, initPc, builds, buildCount,
                 latestArr, changes, clicks, outCtx>>

GradNext ==
  \/ \E n \in 0..MaxN : Pick(n)
  \/ Update
  \/ ApplyPenalty

GradSpec == GradInit /\ [][GradNext]_vars

\* ------------------------------------- the gradient tool: overlapping updates
\* The ids whose textures_top/<id>.png exists: the HEAD request answers ok.
TEXTURES_TOP == {"andesite", "bedrock", "cobweb", "diorite"}

\* passesFilters with the checked state read when the filter runs.
passesFilters(id, fullBlocksOnly) ==
  /\ id \in DOMAIN GRAD_BLOCKS
  /\ fullBlocksOnly => GRAD_BLOCKS[id].full_block

\* Array.prototype.filter
RECURSIVE FilterIds(_, _)
FilterIds(ids, fullBlocksOnly) ==
  IF ids = <<>> THEN <<>>
  ELSE (IF passesFilters(Head(ids), fullBlocksOnly) THEN <<Head(ids)>>
        ELSE <<>>) \o FilterIds(Tail(ids), fullBlocksOnly)

\* The HEAD request for an id answered: the id is kept if its texture exists.
HeadKept(keep, id) == IF id \in TEXTURES_TOP THEN Append(keep, id) ELSE keep

\* A continuation of an update() is queued: it runs before any other event.
UpdatePending == \E s \in UpdSlots : updates[s].pc = "tail"

\* update() up to the first await of its rebuildCandidates: the filter runs
\* at once; with nothing to check, the candidates are assigned at once too.
StartUpdate(s, fullBlocksOnly) ==
  LET filtered == FilterIds(ALL_IDS, fullBlocksOnly) IN
    IF filtered = <<>>
      THEN /\ CANDIDATE_IDS' = <<>>
           /\ updates' = [updates EXCEPT ![s] = [NoUpdate EXCEPT !.pc = "tail"]]
      ELSE /\ CANDIDATE_IDS' = CANDIDATE_IDS
           /\ updates' = [updates EXCEPT ![s] =
                            [pc |-> "fetch", filtered |-> filtered, i |-> 1,
                             keep |-> <<>>]]

\* The change event of the full-blocks-only box.
FullBlocksOnlyChange(s) ==
  /\ events < MaxEvents /\ ~UpdatePending
  /\ updates[s].pc = "none"
  /\ \A t \in UpdSlots : t < s => updates[t].pc # "none"
  /\ events' = events + 1
  /\ elFullBlocksOnly' = ~elFullBlocksOnly
  /\ StartUpdate(s, elFullBlocksOnly')
  /\ UNCHANGED <<elA, elB, elN, elAvoidDupes, elMode, elPreferBuilding,
                 elStrip, nPassed, picked, penalty>>
  /\ UNCHANGED <<BLOCKS, PALETTE, TOP_TEX_OK, TEX_CACHE, genVars, elPalette,
                 elCreative, elImgSrc, status, initPc, builds, buildCount,
                 latestArr, changes, clicks, outCtx>>

\* A click on the swap button.
SwapClick(s) ==
  /\ events < MaxEvents /\ ~UpdatePending
  /\ updates[s].pc = "none"
  /\ \A t \in UpdSlots : t < s => updates[t].pc # "none"
  /\ events' = events + 1
  /\ elA' = (IF elB \in DOMAIN GRAD_BLOCKS THEN elB ELSE elA)
  /\ elB' = (IF elA \in DOMAIN GRAD_BLOCKS THEN elA ELSE elB)
  /\ StartUpdate(s, elFullBlocksOnly)
  /\ UNCHANGED <<elN, elAvoidDupes, elMode, elPreferBuilding, elStrip,
                 nPassed, picked, penalty, elFullBlocksOnly>>
  /\ UNCHANGED <<BLOCKS, PALETTE, TOP_TEX_OK, TEX_CACHE, genVars, elPalette,
                 elCreative, elImgSrc, status, initPc, builds, buildCount,
                 latestArr, changes, clicks, outCtx>>

\* The HEAD request of invocation s is answered: the loop goes on to the
\* next id, or rebuildCandidates assigns CANDIDATE_IDS and returns.
HeadAnswered(s) ==
  /\ updates[s].pc = "fetch" /\ ~UpdatePending
  /\ LET u == updates[s]
         keep == HeadKept(u.keep, u.filtered[u.i]) IN
       IF u.i < Len(u.filtered)
         THEN /\ updates' = [updates EXCEPT ![s].i = u.i + 1, ![s].keep = keep]
              /\ CANDIDATE_IDS' = CANDIDATE_IDS
         ELSE /\ updates' = [updates EXCEPT ![s] =
                               [NoUpdate EXCEPT !.pc = "tail"]]
              /\ CANDIDATE_IDS' = keep
  /\ UNCHANGED <<elA, elB, elN, elAvoidDupes, elMode, elPreferBuilding,
                 elStrip, nPassed, picked, penalty, elFullBlocksOnly, events>>
  /\ UNCHANGED <<BLOCKS, PALETTE, TOP_TEX_OK, TEX_CACHE, genVars, elPalette,
                 elCreative, elImgSrc, status, initPc, builds, buildCount,
                 latestArr, changes, clicks, outCtx>>

\* update() of invocation s after `await rebuildCandidates()`.
UpdateResume(s) ==
  /\ updates[s].pc = "tail"
  /\ UpdateTail
  /\ updates' = [updates EXCEPT ![s] = NoUpdate]
  /\ UNCHANGED <<CANDIDATE_IDS, elA, elB, elAvoidDupes, elMode,
                 elPreferBuilding, picked, penalty, elFullBlocksOnly, events>>
  /\ UNCHANGED <<BLOCKS, PALETTE, TOP_TEX_OK, TEX_CACHE, genVars, elPalette,
                 elCreative, elImgSrc, status, initPc, builds, buildCount,
                 latestArr, changes, clicks, outCtx>>

\* rebuildCandidates run alone from start to end.
RECURSIVE KeepAll(_, _)
KeepAll(filtered, keep) ==
  IF filtered = <<>> THEN keep
  ELSE KeepAll(Tail(filtered), HeadKept(keep, Head(filtered)))

\* What update() renders from the inputs and CANDIDATE_IDS as they are.
StripNow ==
  IF elA \notin DOMAIN GRAD_BLOCKS \/ elB \notin DOMAIN GRAD_BLOCKS THEN <<>>
  ELSE <<elA>> \o
       pickTransitions(elA, elB, MathMin(parseInt(elN), Num(14)),
                       elAvoidDupes).picks \o <<elB>>

\* The gradient page when init() has returned: the catalogue is loaded, the
\* two selections are set, the first update() is over and the listeners are
\* registered; the inputs init() leaves alone are as the page has them.
OverlapInit ==
  /\ PageLoad
  /\ outCtx = TRUE
  /\ picked = NoCall
  /\ penalty = NoPenalty
  /\ events = 0
  /\ updates = [s \in UpdSlots |-> NoUpdate]
  /\ elFullBlocksOnly \in BOOLEAN
  /\ elA = "andesite"
  /\ elB = "diorite"
  /\ elAvoidDupes \in BOOLEAN
  /\ elMode \in GradModes
  /\ elPreferBuilding = FALSE
  /\ CANDIDATE_IDS = KeepAll(FilterIds(ALL_IDS, elFullBlocksOnly), <<>>)
  /\ \E v \in {<<"1">>, <<"2">>} :
       /\ elN = v
       /\ nPassed = <<parseInt(v)>>
  /\ elStrip = StripNow

OverlapNext ==
  \/ \E s \in UpdSlots : FullBlocksOnlyChange(s)
  \/ \E s \in UpdSlots : SwapClick(s)
  \/ \E s \in UpdSlots : HeadAnswered(s)
  \/ \E s \in UpdSlots : UpdateResume(s)

OverlapSpec == OverlapInit /\ [][OverlapNext]_vars


\* ------------------------------------------------------------------ helpers
RECURSIVE SumOver(_, _)
SumOver(f, keys) ==
  IF keys = {} THEN 0
  ELSE LET k == CHOOSE x \in keys : TRUE IN f[k] + SumOver(f, keys \ {k})

SumCounts(counts) == SumOver(counts, DOMAIN counts)

CellsWith(assign, v) == Cardinality({p \in DOMAIN assign : assign[p] = v})

PaletteIds(pal) == {pal[k].id : k \in DOMAIN pal}

PassActive == gen.pc \in {"loading", "ready"}

\* A step in which generate is invoked: a click on Generate, or a filter
\* change handler reaching `if(elImg?.src && LAST_ASSIGN) generate()`.
GenerateInvoked ==
  \/ clicks' # clicks
  \/ \E s \in Slots : /\ builds[s].pc \in {"returned", "skipped"}
                      /\ builds[s].caller = "change"
                      /\ builds'[s].pc = "none"
                      /\ elImgSrc /\ LAST_ASSIGN # null

BuildsDone == \A s \in Slots : builds[s].pc \in {"none", "returned", "skipped"}

\* HEAD requests in flight for id.
ChecksInFlight(id) ==
  Cardinality({s \in Slots : builds[s].pc = "fetch" /\ BlockIds[builds[s].i] = id})

\* ------------------------------------------------------------------- claims

\* C1: a generate invocation that arrives while a pass is in progress
\* (IS_GENERATING true) changes none of LAST_COUNTS, LAST_ASSIGN, LAST_SIZE,
\* the output canvas or the locals of the pass in progress; and the flag is
\* true exactly while the one pass past the guard is suspended.
C1_SecondInvocationIgnored ==
  /\ [](IS_GENERATING <=> PassActive)
  /\ [][(IS_GENERATING /\ GenerateInvoked) =>
          UNCHANGED <<LAST_COUNTS, LAST_ASSIGN, LAST_SIZE, outCanvas, gen>>]_vars

\* C1 witness: an invocation has returned at the guard and the pass it ran
\* into is still waiting for tile images.
C1_Witness == ignoredCalls > 0 /\ IS_GENERATING /\ gen.pc = "loading"

\* C2: once all buildPalette runs have completed, PALETTE is the result of
\* the run started last, which is the run that read the latest filter
\* configuration.
C2_LatestConfigurationWins ==
  (BuildsDone /\ buildCount > 0) => PALETTE = latestArr

\* C3: PALETTE changes only in a step in which a buildPalette run returns,
\* and then to the complete, sorted result of that run (every catalogue id
\* visited); it is never observable with part of a run's entries.
C3_PaletteReplacedWholesale ==
  [][PALETTE' # PALETTE =>
       \E s \in Slots : /\ builds[s].pc # "returned"
                        /\ builds'[s].pc = "returned"
                        /\ builds'[s].i > Len(BlockIds)
                        /\ PALETTE' = builds'[s].arr]_vars

\* C3 witness: a run is suspended at an await holding entries it has
\* collected so far, while PALETTE is the non-empty result of an earlier run.
C3_Witness ==
  \E s \in Slots : /\ builds[s].pc = "fetch"
                   /\ builds[s].arr # <<>>
                   /\ PALETTE # <<>>
                   /\ PALETTE # builds[s].arr

\* C4: there are never two existence checks in flight for the same id, nor
\* two tile image loads in flight for the same id.
C4_RequestsDeduplicated ==
  \A id \in Ids : ChecksInFlight(id) <= 1 /\ gen.pending[id] <= 1

\* C5: after a matching pass over size x size pixels, the sum of the counts
\* plus the number of empty cells of the assignment equals size * size.
C5_CountsPlusEmptyIsTotal ==
  LAST_ASSIGN # null =>
    /\ LAST_COUNTS # null
    /\ SumCounts(LAST_COUNTS[1]) + CellsWith(LAST_ASSIGN, 0) = Len(LAST_ASSIGN)
    /\ Len(LAST_ASSIGN) = gen.size * gen.size

\* C5 witness: a pass over a 2 x 2 buffer with empty and assigned cells.
C5_Witness ==
  /\ gen.pc = "done" /\ gen.size = 2
  /\ CellsWith(LAST_ASSIGN, 0) = 1
  /\ SumCounts(LAST_COUNTS[1]) = 3

\* Cells left blank in the bitmap, cells drawn, and cells whose assigned
\* id has no loaded tile image.
BlankInBitmap == Cardinality({p \in DOMAIN outCanvas.cells : outCanvas.cells[p] = 0})
DrawnInBitmap == Cardinality({p \in DOMAIN outCanvas.cells : outCanvas.cells[p] # 0})
UnresolvedCells ==
  Cardinality({p \in DOMAIN LAST_ASSIGN :
                 LAST_ASSIGN[p] # 0 /\ LAST_ASSIGN[p] \notin TEX_CACHE})

\* C6 as stated: after a generation pass the sum of the counts equals
\* size * size minus the cells left blank in the bitmap (empty or
\* unresolved).
C6_CountsExcludeUndrawn ==
  gen.pc = "done" =>
    SumCounts(LAST_COUNTS[1]) = gen.size * gen.size - BlankInBitmap

\* C6 amended: after a generation pass the sum of the counts equals
\* size * size minus the empty cells only; a cell whose tile image could
\* not be loaded is blank in the bitmap and still counted, so the sum is
\* the number of drawn cells plus the number of unresolved cells.
C6_CountsIncludeUnresolved ==
  gen.pc = "done" =>
    /\ SumCounts(LAST_COUNTS[1]) = gen.size * gen.size - CellsWith(LAST_ASSIGN, 0)
    /\ SumCounts(LAST_COUNTS[1]) = DrawnInBitmap + UnresolvedCells
    /\ BlankInBitmap = CellsWith(LAST_ASSIGN, 0) + UnresolvedCells

\* C6 witness: a finished pass with a drawn cell and an unresolved cell.
C6_Witness ==
  gen.pc = "done" /\ DrawnInBitmap > 0 /\ UnresolvedCells > 0

\* C7: a cell of the assignment is empty exactly when its pixel has alpha
\* 0, whatever its RGB; every other pixel is assigned the id of an entry of
\* the palette of the pass, and the count of each id is the number of
\* cells assigned to it.
C7_EmptyIffAlphaZero ==
  gen.pc # "idle" =>
    /\ Len(LAST_ASSIGN) = Len(gen.data)
    /\ \A p \in DOMAIN gen.data :
         /\ LAST_ASSIGN[p] = 0 <=> gen.data[p].a = 0
         /\ gen.data[p].a > 0 => LAST_ASSIGN[p] \in PaletteIds(gen.palette)
    /\ \A id \in Ids :
         IF id \in DOMAIN LAST_COUNTS[1]
           THEN LAST_COUNTS[1][id] = CellsWith(LAST_ASSIGN, id)
           ELSE CellsWith(LAST_ASSIGN, id) = 0

\* C7 witness: a pass over a buffer holding a white pixel of alpha 0 and a
\* pixel of alpha 1.
C7_Witness ==
  /\ gen.pc = "done"
  /\ \E p \in DOMAIN gen.data :
       gen.data[p] = PxClear /\ LAST_ASSIGN[p] = 0
  /\ \E p \in DOMAIN gen.data :
       gen.data[p] = PxFaint /\ LAST_ASSIGN[p] # 0

\* Lab colours matched: the inputs taken on their own and the colours of
\* the pixels.
MatchInputs == LabInputs \cup {rgbToLab255(px.r, px.g, px.b) : px \in {PxWhite, PxFaint}}

\* C8: for a non-empty palette findNearestBlock returns an entry of the
\* palette at minimal distance, the one of lowest id among those at that
\* distance; it returns none exactly when the palette is empty.
C8_NearestLowestId ==
  \A lab \in MatchInputs :
    LET r == findNearestBlock(lab, PALETTE) IN
      /\ r = none <=> Len(PALETTE) = 0
      /\ r # none =>
           /\ \E k \in DOMAIN PALETTE : PALETTE[k] = r
           /\ \A k \in DOMAIN PALETTE :
                /\ distLab(lab, r.lab) <= distLab(lab, PALETTE[k].lab)
                /\ distLab(lab, r.lab) = distLab(lab, PALETTE[k].lab)
                     => r.id <= PALETTE[k].id

\* C8 witness: a pass has matched against a palette in which two entries
\* are nearest to Lab (50,0,0) at the same distance, and the lower id wins.
C8_Witness ==
  /\ gen.pc = "done" /\ gen.palette = PALETTE
  /\ \E j, k \in DOMAIN PALETTE :
       /\ PALETTE[j].id < PALETTE[k].id
       /\ distLab(<<50, 0, 0>>, PALETTE[j].lab) = distLab(<<50, 0, 0>>, PALETTE[k].lab)
       /\ findNearestBlock(<<50, 0, 0>>, PALETTE) = PALETTE[j]

\* The inclusion rule as the specification words it (strict_solid is the
\* select value full_solid).
SpecAdmits(b, mode, includeRestricted) ==
  /\ b.lab # <<>>
  /\ b.creative_only => includeRestricted
  /\ mode = "full_solid" => b.full_block /\ ~b.transparent /\ ~b.noisy
  /\ mode = "all_solid" => b.full_block /\ ~b.transparent

\* C9: the result of a buildPalette run holds exactly the catalogue entries
\* that the inclusion rule admits under the configuration the run read and
\* whose existence check returned true to the run; a full_solid run holds
\* no entry tagged transparent or noisy.
C9_PaletteIsFilteredCatalogue ==
  \A s \in Slots : builds[s].pc = "returned" =>
    LET run == builds[s] IN
      /\ \A id \in Ids :
           LET admitted == SpecAdmits(BLOCKS_JSON[id], run.mode, run.includeCreative) IN
             /\ id \in PaletteIds(run.arr) <=> admitted /\ run.checks[id] = "ok"
             /\ admitted => run.checks[id] # "unchecked"
      /\ run.mode = "full_solid" =>
           \A id \in PaletteIds(run.arr) :
             ~BLOCKS_JSON[id].transparent /\ ~BLOCKS_JSON[id].noisy

\* C9 witness: a full_solid run with restricted entries included has
\* returned the plain and the creative-only entry, while the catalogue
\* holds full blocks tagged noisy and transparent.
C9_Witness ==
  \E s \in Slots : /\ builds[s].pc = "returned"
                   /\ builds[s].mode = "full_solid"
                   /\ builds[s].includeCreative
                   /\ PaletteIds(builds[s].arr) = {1, 4}

\* C10: PALETTE has no two entries with the same id, is in ascending id
\* order, and every entry has a Lab colour.
C10_PaletteSortedUnique ==
  /\ \A j, k \in DOMAIN PALETTE : j < k => PALETTE[j].id < PALETTE[k].id
  /\ \A k \in DOMAIN PALETTE : PALETTE[k].lab # <<>>

\* C10 witness: PALETTE holds four entries after overlapping runs, the
\* catalogue listing id 3 before id 1.
C10_Witness ==
  /\ Len(PALETTE) = 4
  /\ buildCount = 2
  /\ \E s \in Slots : builds[s].pc = "fetch"

\* C11: in every pass the entry assigned to an opaque pixel is the nearest
\* match of the pixel's colour against the palette that pass used, computed
\* without the memo; the memo of a pass holds only picks made against that
\* palette, whatever an earlier pass stored under the same colour key.
C11_MemoTransparent ==
  gen.pc # "idle" =>
    /\ \A p \in DOMAIN gen.data :
         LET px == gen.data[p] IN
           ~IsEmptyPixel(px) =>
             gen.assign[p] =
               findNearestBlock(rgbToLab255(px.r, px.g, px.b), gen.palette).id
    /\ \A p \in DOMAIN gen.data :
         LET px == gen.data[p] IN
           ~IsEmptyPixel(px) =>
             /\ RgbKey(px) \in DOMAIN gen.cache
             /\ gen.cache[RgbKey(px)] =
                  findNearestBlock(rgbToLab255(px.r, px.g, px.b), gen.palette)

\* C11 witness: a pass whose memo maps a colour key to another entry than
\* the memo of the pass before it did, the palette having changed between
\* the two passes, and which met that colour twice.
C11_Witness ==
  /\ gen.pc # "idle"
  /\ gen.repicked
  /\ \E p, q \in DOMAIN gen.data :
       /\ p < q
       /\ ~IsEmptyPixel(gen.data[p])
       /\ gen.data[p] = gen.data[q]

\* ------------------------------------------------- gradient tool helpers
CandidateSet == {CANDIDATE_IDS[k] : k \in DOMAIN CANDIDATE_IDS}

\* The candidates that duplicate avoidance leaves for the k-th pick of the
\* call.
Eligible(k) ==
  IF picked.avoidDupes
    THEN CandidateSet \ ({picked.idA, picked.idB} \cup
                          {picked.picks[j] : j \in 1..(k - 1)})
    ELSE CandidateSet

\* labDistance and penalty of entry id for the k-th target of the call, in
\* units of 1/(n+1).
TargetDistance(id, k) ==
  LET den == picked.n.v + 1 IN
    gradientDistLab([c \in 1..3 |-> den * AvgLab(id)[c]],
                    lerpLab(AvgLab(picked.idA), AvgLab(picked.idB), k, picked.n.v))

TargetPenalty(id) ==
  (picked.n.v + 1) * preferencePenalty(GRAD_BLOCKS[id], elMode, elPreferBuilding)

Smaller(a, b) == IF a < b THEN a ELSE b

\* C12: a pickTransitions call with avoidDuplicates = true returns at most
\* n ids, none of them A or B and none of them twice.
C12_NoRepeatedPicks ==
  (picked.state = "returned" /\ picked.avoidDupes) =>
    /\ Len(picked.picks) <= picked.n.v
    /\ \A k \in DOMAIN picked.picks :
         /\ picked.picks[k] \notin {picked.idA, picked.idB}
         /\ \A j \in 1..(k - 1) : picked.picks[j] # picked.picks[k]

\* C12 witness: a call with avoidDuplicates = true returned two picks while
\* endpoint A is itself a candidate.
C12_Witness ==
  /\ picked.state = "returned" /\ picked.avoidDupes
  /\ Len(picked.picks) >= 2
  /\ picked.idA \in CandidateSet

\* C13: a pickTransitions call never ends in an error; with
\* avoidDuplicates = true it returns exactly min(n, number of candidates
\* other than A and B) picks, and with avoidDuplicates = false and a
\* non-empty candidate set exactly n picks.
C13_PicksCount ==
  picked.state # "none" =>
    /\ picked.state = "returned"
    /\ picked.avoidDupes =>
         Len(picked.picks) =
           Smaller(picked.n.v,
                   Cardinality(CandidateSet \ {picked.idA, picked.idB}))
    /\ (~picked.avoidDupes /\ CandidateSet # {}) =>
         Len(picked.picks) = picked.n.v

\* C14: the k-th id a pickTransitions call returns is a candidate that
\* duplicate avoidance had not excluded at the k-th target, and no such
\* candidate has a smaller labDistance + penalty to that target.
C14_PickMinimizes ==
  picked.state = "returned" =>
    \A k \in DOMAIN picked.picks :
      /\ picked.picks[k] \in Eligible(k)
      /\ \A c \in Eligible(k) :
           TargetDistance(picked.picks[k], k) + TargetPenalty(picked.picks[k])
             <= TargetDistance(c, k) + TargetPenalty(c)

\* C14 witness: a returned pick that the penalty decided: an eligible
\* candidate lies strictly nearer to the target than the id picked.
C14_Witness ==
  /\ picked.state = "returned"
  /\ \E k \in DOMAIN picked.picks : \E c \in Eligible(k) :
       TargetDistance(c, k) < TargetDistance(picked.picks[k], k)

\* The terms of the penalty that apply to an entry, as <<name, amount>>.
PenaltyTerms(block, mode, preferBuilding) ==
  {t \in {<<"building", 6>>, <<"plantlike", 5>>, <<"redstone", 5>>, <<"ore", 4>>,
          <<"transparent", 4>>, <<"noisy", 4>>, <<"creative", 8>>} :
     \/ t[1] = "building" /\ preferBuilding /\ ~block.building_block
     \/ t[1] = "plantlike" /\ block.plantlike
     \/ t[1] = "redstone" /\ block.redstone
     \/ t[1] = "ore" /\ block.ore
     \/ t[1] = "transparent" /\ block.transparent
     \/ t[1] = "noisy" /\ block.noisy
     \/ t[1] = "creative" /\ block.creative_only /\ mode # "creative"}

RECURSIVE SumTerms(_)
SumTerms(ts) ==
  IF ts = {} THEN 0
  ELSE LET t == CHOOSE x \in ts : TRUE IN t[2] + SumTerms(ts \ {t})

\* C15: the preference penalty of an entry is the sum of all terms that
\* apply to it, and 0 when the scoring mode is anything.
C15_PenaltyIsSum ==
  penalty.state = "out" =>
    penalty.p = IF penalty.mode = "anything" THEN 0
                ELSE SumTerms(PenaltyTerms(penalty.block, penalty.mode,
                                           penalty.preferBuilding))

\* C15 witness: the penalty of an entry to which all seven terms apply.
C15_Witness ==
  /\ penalty.state = "out"
  /\ penalty.p = 36

\* C16: the n that update passes to pickTransitions is an integer from 1
\* to 14.
C16_CountInRange ==
  nPassed # <<>> => ~nPassed[1].nan /\ nPassed[1].v \in 1..14

\* The first precondition of generate that fails, as the status it sets.
FailedPrecondition ==
  IF ~BLOCKS THEN "Blocks not loaded yet."
  ELSE IF Len(PALETTE) = 0
    THEN "Palette is empty (adjust filters or textures_top is missing files)."
  ELSE IF ~elImgSrc THEN "Upload an image first."
  ELSE IF ~outCtx THEN "Missing output canvas (check HTML IDs)."
  ELSE "none"

\* C17: a generate invocation that passes the guard with a failed
\* precondition (catalogue not loaded, palette empty, no image, no output
\* canvas) sets the status of that failure and leaves LAST_COUNTS,
\* LAST_ASSIGN, LAST_SIZE and the output bitmap unchanged, starting no pass;
\* no pass ever runs on an empty palette.
C17_FailedPreconditionAborts ==
  /\ [](gen.pc # "idle" => gen.palette # <<>>)
  /\ [][(GenerateInvoked /\ ~IS_GENERATING /\ FailedPrecondition # "none") =>
          /\ status' = FailedPrecondition
          /\ ~IS_GENERATING'
          /\ UNCHANGED <<LAST_COUNTS, LAST_ASSIGN, LAST_SIZE, outCanvas, gen>>]_vars

\* C17 witness: Generate was clicked with the catalogue and an image loaded
\* and a canvas present, but with an empty palette: the status names the
\* empty palette and nothing was computed.
C17_Witness ==
  /\ clicks = 1 /\ BLOCKS /\ elImgSrc /\ outCtx /\ PALETTE = <<>>
  /\ status = "Palette is empty (adjust filters or textures_top is missing files)."
  /\ LAST_ASSIGN = null /\ LAST_COUNTS = null /\ LAST_SIZE = 128
  /\ outCanvas.size = 0

\* C18: a tile image that fails to load does not abort the pass: the pass
\* goes on waiting or rendering, with generation still in progress and the
\* assignment and status untouched; rendering then sets Done and releases
\* the guard; and in the finished bitmap every assigned cell whose id has a
\* loaded tile is drawn with it, the blank cells being the empty cells and
\* the cells of the ids whose tile failed.
C18_FailedTileDoesNotAbort ==
  /\ [](gen.pc = "done" =>
          \A p \in DOMAIN gen.assign :
            /\ gen.assign[p] \in TEX_CACHE => outCanvas.cells[p] = gen.assign[p]
            /\ gen.assign[p] \notin TEX_CACHE => outCanvas.cells[p] = 0)
  /\ [][(gen.pc = "loading" /\ gen' # gen /\ TEX_CACHE' = TEX_CACHE) =>
          /\ gen'.pc \in {"loading", "ready"}
          /\ gen'.assign = gen.assign
          /\ IS_GENERATING' /\ status' = status /\ LAST_ASSIGN' = LAST_ASSIGN]_vars
  /\ [][(gen.pc = "ready" /\ gen' # gen) =>
          gen'.pc = "done" /\ status' = "Done." /\ ~IS_GENERATING']_vars

\* C18 witness: a pass has ended with Done and the guard released after the
\* tile of one of its two ids failed to load: the cells of the other id are
\* drawn, one of them after a cell left blank.
C18_Witness ==
  /\ gen.pc = "done" /\ status = "Done." /\ ~IS_GENERATING
  /\ \E p, q \in DOMAIN gen.assign :
       /\ p < q
       /\ gen.assign[p] # 0 /\ gen.assign[p] \notin TEX_CACHE
       /\ outCanvas.cells[p] = 0
       /\ outCanvas.cells[q] = gen.assign[q] /\ gen.assign[q] # 0

\* C19: once init() has failed to load the catalogue, BLOCKS stays unset
\* and PALETTE empty, no buildPalette run gets past its BLOCKS check, no
\* matching pass runs and no assignment grid or counts exist; the failure
\* sets the failure status; and every later generate invocation only
\* reports that the blocks are not loaded.
C19_CatalogFailureIsTerminal ==
  /\ [](initPc = "failed" =>
          /\ ~BLOCKS /\ PALETTE = <<>>
          /\ buildCount = 0
          /\ \A s \in Slots : builds[s].pc \in {"none", "skipped"}
          /\ gen.pc = "idle" /\ ~IS_GENERATING
          /\ LAST_ASSIGN = null /\ LAST_COUNTS = null
          /\ outCanvas.size = 0)
  /\ [][(initPc # "failed" /\ initPc' = "failed") =>
          status' = "Failed to load ../data/blocks.json. Run the server from /site."]_vars
  /\ [][initPc = "failed" =>
          /\ initPc' = "failed"
          /\ GenerateInvoked => status' = "Blocks not loaded yet."]_vars

\* C19 witness: after the failed load an image was chosen, a filter was
\* changed and Generate was clicked; there is still no palette and no
\* assignment grid.
C19_Witness ==
  /\ initPc = "failed"
  /\ elImgSrc /\ changes = 1 /\ clicks = 1
  /\ \A s \in Slots : builds[s].pc = "none"
  /\ PALETTE = <<>> /\ LAST_ASSIGN = null

\* C20: the step in which a pass begins computes the whole assignment
\* grid: in that one step no buildPalette run advances and PALETTE and the
\* memo of existence checks do not change, and every cell of the grid is
\* the nearest match of its pixel against the one value PALETTE has in that
\* step, whatever runs are suspended meanwhile.
C20_MatchingAtomic ==
  [][(~PassActive /\ PassActive') =>
       /\ PALETTE' = PALETTE /\ TOP_TEX_OK' = TOP_TEX_OK
       /\ \A s \in Slots : builds'[s] = builds[s] \/ builds'[s] = NoRun
       /\ gen'.palette = PALETTE
       /\ LAST_ASSIGN' = gen'.assign
       /\ DOMAIN LAST_ASSIGN' = DOMAIN gen'.data
       /\ \A p \in DOMAIN gen'.data :
            LET px == gen'.data[p] IN
              LAST_ASSIGN'[p] =
                IF IsEmptyPixel(px) THEN 0
                ELSE findNearestBlock(rgbToLab255(px.r, px.g, px.b), PALETTE).id]_vars

\* C20 witness: Generate was invoked while a buildPalette run was suspended
\* at an existence check, holding entries that are not PALETTE; the pass
\* matched two opaque pixels and is waiting for its tiles.
C20_Witness ==
  /\ gen.pc = "loading" /\ status = "Rendering texture mosaic..."
  /\ \E s \in Slots : /\ builds[s].pc = "fetch"
                      /\ builds[s].arr # <<>>
                      /\ builds[s].arr # gen.palette
  /\ \E p, q \in DOMAIN gen.assign :
       p < q /\ gen.assign[p] # 0 /\ gen.assign[q] # 0

\* C21: a generate invocation that passes the guard and ends at a failed
\* precondition or an exception leaves IS_GENERATING false in the same
\* step; and whenever IS_GENERATING is true it becomes false again, every
\* started tile load resolving.
C21_GuardReleased ==
  /\ [][(GenerateInvoked /\ ~IS_GENERATING /\ ~PassActive') => ~IS_GENERATING']_vars
  /\ IS_GENERATING ~> ~IS_GENERATING

\* C21 witness: an invocation was turned away at the guard while a pass was
\* waiting for a tile image, which then failed to load; the pass has ended
\* and the guard is free again.
C21_Witness ==
  /\ ignoredCalls > 0 /\ gen.pc = "done" /\ ~IS_GENERATING
  /\ UsedIds(gen.assign) # {}
  /\ UsedIds(gen.assign) \cap TEX_CACHE = {}

\* C22: when a filter was changed, every change handler has finished and no
\* pass is in progress, with an image loaded and a result present, every
\* id of LAST_ASSIGN and every key of LAST_COUNTS is the id of an entry of
\* PALETTE.
C22_OutputMatchesPalette ==
  (/\ changes > 0
   /\ \A s \in Slots : builds[s].pc = "none" \/ builds[s].caller # "change"
   /\ ~PassActive
   /\ elImgSrc /\ LAST_ASSIGN # null) =>
    /\ UsedIds(LAST_ASSIGN) \subseteq PaletteIds(PALETTE)
    /\ DOMAIN LAST_COUNTS[1] \subseteq PaletteIds(PALETTE)

\* C23: LAST_COUNTS and LAST_ASSIGN are set together: whenever either is
\* set both are, the keys of LAST_COUNTS are exactly the ids that occur in
\* LAST_ASSIGN, and each key's count is the number of cells holding it; a
\* step changes both or neither, also when a later invocation aborts.
C23_CountsAgreeWithAssign ==
  /\ [](LAST_ASSIGN = null <=> LAST_COUNTS = null)
  /\ [](LAST_ASSIGN # null =>
          /\ DOMAIN LAST_COUNTS[1] = UsedIds(LAST_ASSIGN)
          /\ \A id \in DOMAIN LAST_COUNTS[1] :
               /\ LAST_COUNTS[1][id] > 0
               /\ LAST_COUNTS[1][id] = CellsWith(LAST_ASSIGN, id))
  /\ [][LAST_ASSIGN' # LAST_ASSIGN => PassActive' /\ gen'.assign = LAST_ASSIGN']_vars
  /\ [][LAST_COUNTS' # LAST_COUNTS => PassActive' /\ gen' # gen]_vars

\* C23 witness: the result of a pass with an id in two cells and two empty
\* cells is still in place after a later invocation ended in an exception
\* that changed LAST_SIZE.
C23_Witness ==
  /\ LAST_ASSIGN # null
  /\ CellsWith(LAST_ASSIGN, 0) = 2
  /\ \E id \in DOMAIN LAST_COUNTS[1] : LAST_COUNTS[1][id] = 2
  /\ status = "Error: crop" /\ LAST_SIZE * LAST_SIZE # Len(LAST_ASSIGN)

\* C24: on the gradient page, once every update() invocation that overlapped
\* with another has completed, CANDIDATE_IDS is the candidate list of the
\* current state of the full-blocks-only box and the strip is the one
\* rendered from it: an update that started earlier never leaves its list
\* behind after a later one has stored its own.
C24_LatestUpdateWins ==
  (events > 1 /\ \A s \in UpdSlots : updates[s].pc = "none") =>
    /\ CANDIDATE_IDS = KeepAll(FilterIds(ALL_IDS, elFullBlocksOnly), <<>>)
    /\ elStrip = StripNow
====
